---------------------------- MODULE Spec2Model ----------------------------
(***************************************************************************)
(* Model of mteb/evaluation/evaluators/Image/Any2AnyRetrievalEvaluator.py: *)
(* the chunked exact search engine (DenseRetrievalExactSearch) and the     *)
(* metric evaluator (Any2AnyRetrievalEvaluator.evaluate).                  *)
(*                                                                         *)
(* Ids (query ids, corpus ids) are small integers; Python compares the    *)
(* id strings, the model compares the integers.  Scores are integers.  A  *)
(* raw score is a record [nan, v]: nan = TRUE stands for a NaN entry of   *)
(* the score matrix.                                                       *)
(***************************************************************************)
EXTENDS Integers, Sequences, FiniteSets, TLC

\* ------------------------------------------------------------ bounds
MaxQueries == 2
MaxCorpus == 3
MaxCells == 1
MaxRankCells == 3
MaxTopK == 2
MaxChunk == 3
DotMax == 2
MaxEvalId == 2
MaxScore == 2
MaxPairs == 2
MaxK == 2

\* ----------------------------------------------------------- helpers
Min(a, b) == IF a <= b THEN a ELSE b

Range(s) == {s[i] : i \in DOMAIN s}

EmptyMap == <<>>

\* ------------------------------------------------- the engine's tables
\* self.score_functions = {"cos_sim": cos_sim, "dot": dot_score}
score_functions == {"cos_sim", "dot"}

\* The score function names a caller may pass: the two supported ones and
\* one that is not in self.score_functions.
ScoreFunctionNames == score_functions \cup {"euclid"}

\* The modality tags the code dispatches on, and one it does not know.
SupportedModalities == {"text", "image", "image,text"}

Modalities == SupportedModalities \cup {"audio"}

\* cos_scores[torch.isnan(cos_scores)] = -1
NanSentinel == -1

\* The values a score function can produce for one (query, corpus item)
\* pair: a cosine similarity lies in [-1, 1], a dot product is unbounded
\* (here -DotMax..DotMax); either can be NaN.
ScoreRange(sf) ==
    LET vals == IF sf = "cos_sim" THEN -1 .. 1 ELSE -DotMax .. DotMax
    IN  {[nan |-> FALSE, v |-> x] : x \in vals} \cup {[nan |-> TRUE, v |-> 0]}

\* ------------------------------------------------------------- state
VARIABLES
    pc,                 \* position of the engine / of the running search()
    corpus_chunk_size,  \* self.corpus_chunk_size
    previous_results,   \* self.previous_results
    results,            \* self.results
    score_function,     \* search() argument
    top_k,              \* search() argument
    queries,            \* search() argument: [ids, modality]
    corpus,             \* search() argument: [ids, modality]
    chunk_start,        \* loop variable of the chunk loop (0-based)
    result_heaps,       \* local: qid -> set of <<score, corpus_id>>
    cos_scores,         \* the raw scores computed so far: <<q idx, corpus pos>> -> raw
    encoded,            \* the embedding calls made by this search(), in order
    outcome,            \* how the last engine operation ended
    \* Any2AnyRetrievalEvaluator.evaluate (a static method: no engine state)
    e_pc,               \* position of the running evaluate()
    qrels,              \* evaluate() argument, the caller's object
    e_results,          \* evaluate() argument `results`, the caller's object
    k_values,           \* evaluate() argument
    ignore_identical_ids, \* evaluate() argument
    scores,             \* the query ids of evaluator.evaluate(results), in order
    all_scores,         \* all_ndcgs, all_aps, all_recalls, all_precisions:
                        \* metric name -> (key -> list of per-query values)
    metrics,            \* ndcg, _map, recall, precision: metric name -> (key -> value)
    naucs,              \* what evaluate_abstention() returned
    qrels_at_call,      \* qrels as the caller passed it
    results_at_call,    \* results as the caller passed it
    evaluator_input,    \* what evaluator.evaluate() was given
    abstention_input,   \* what evaluate_abstention() was given
    e_outcome           \* how evaluate() ended

engineVars == <<pc, corpus_chunk_size, previous_results, results, score_function,
                top_k, queries, corpus, chunk_start, result_heaps, cos_scores,
                encoded, outcome>>

evalVars == <<e_pc, qrels, e_results, k_values, ignore_identical_ids, scores,
              all_scores, metrics, qrels_at_call, results_at_call,
              evaluator_input, abstention_input, e_outcome, naucs>>

vars == <<engineVars, evalVars>>


\* ------------------------------------------------ cached results file
\* A decoded results file.  kind "list" is any top level that is not a
\* mapping; kind "dict" is a mapping whose i-th key (in file order) is query
\* id i and whose i-th value is entries[i]: a mapping corpus id -> score
\* (isdict) or anything else.
MaxFileEntries == 2

NoFile == [kind |-> "none", entries |-> <<>>]

CachedRow == (1 :> 1)

JsonValues == {[isdict |-> TRUE, val |-> CachedRow], [isdict |-> FALSE, val |-> EmptyMap]}

JsonFiles ==
    {[kind |-> "list", entries |-> <<>>]}
    \cup {[kind |-> "dict", entries |-> e] :
            e \in UNION {[1 .. n -> JsonValues] : n \in 0 .. MaxFileEntries}}

\* load_results_file, for a local path: json.load, then the two asserts.
\*   assert isinstance(previous_results, dict)
\*   assert isinstance(previous_results[list(previous_results.keys())[0]], dict)
load_results_file(file) ==
    IF file.kind # "dict"
    THEN [error |-> "AssertionError", value |-> NoFile]
    ELSE IF Len(file.entries) = 0
    THEN [error |-> "IndexError", value |-> NoFile]
    ELSE IF ~file.entries[1].isdict
    THEN [error |-> "AssertionError", value |-> NoFile]
    ELSE [error |-> "none", value |-> file]

\* The decoded content is a mapping query id -> (mapping corpus id -> score).
IsResultSet(file) ==
    /\ file.kind = "dict"
    /\ Len(file.entries) > 0
    /\ \A i \in DOMAIN file.entries : file.entries[i].isdict

\* The Result Set a well-formed file holds.
AsResultSet(file) == [i \in DOMAIN file.entries |-> file.entries[i].val]

\* -------------------------------------------------------------- Init
EmptyDataset == [ids |-> <<>>, modality |-> "none"]

InitEvaluate ==
    /\ e_pc = "idle"
    /\ qrels = EmptyMap
    /\ e_results = EmptyMap
    /\ k_values = <<>>
    /\ ignore_identical_ids = FALSE
    /\ scores = <<>>
    /\ all_scores = EmptyMap
    /\ metrics = EmptyMap
    /\ qrels_at_call = EmptyMap
    /\ results_at_call = EmptyMap
    /\ evaluator_input = EmptyMap
    /\ abstention_input = EmptyMap
    /\ e_outcome = "none"
    /\ naucs = EmptyMap

\* No engine has been constructed yet.
InitNew ==
    /\ pc = "new"
    /\ corpus_chunk_size = 1
    /\ previous_results = NoFile
    /\ results = EmptyMap
    /\ score_function = "none"
    /\ top_k = 1
    /\ queries = EmptyDataset
    /\ corpus = EmptyDataset
    /\ chunk_start = 0
    /\ result_heaps = EmptyMap
    /\ cos_scores = EmptyMap
    /\ encoded = <<>>
    /\ outcome = "none"
    /\ InitEvaluate

\* An engine constructed without a results file, with any chunk size.
Init ==
    /\ pc = "idle"
    /\ corpus_chunk_size \in 1 .. MaxChunk
    /\ previous_results = NoFile
    /\ results = EmptyMap
    /\ score_function = "none"
    /\ top_k = 1
    /\ queries = EmptyDataset
    /\ corpus = EmptyDataset
    /\ chunk_start = 0
    /\ result_heaps = EmptyMap
    /\ cos_scores = EmptyMap
    /\ encoded = <<>>
    /\ outcome = "none"
    /\ InitEvaluate

\* DenseRetrievalExactSearch.__init__: the fields are set, and a results
\* file, when one is named, is loaded; a failed load leaves no engine.
Construct ==
    /\ pc = "new"
    /\ \E file \in {NoFile} \cup JsonFiles, size \in 1 .. MaxChunk :
         LET loaded == IF file = NoFile
                       THEN [error |-> "none", value |-> NoFile]
                       ELSE load_results_file(file)
         IN  /\ corpus_chunk_size' = size
             /\ results' = EmptyMap
             /\ previous_results' = loaded.value
             /\ outcome' = loaded.error
             /\ pc' = IF loaded.error = "none" THEN "idle" ELSE "failed"
    /\ UNCHANGED <<score_function, top_k, queries, corpus, chunk_start,
                   result_heaps, cos_scores, encoded>>


\* ------------------------------------------------------------ search
\* Mutant: the check of the score function is missing.
AnyScoreFunction(sf) == TRUE

\* if score_function not in self.score_functions: raise ValueError
SupportedScoreFunction(sf) == sf \in score_functions

\* Mutant: the final else encodes as fused instead of raising.
EncoderWithoutElse(modality) ==
    IF modality = "text" THEN "get_text_embeddings"
    ELSE IF modality = "image" THEN "get_image_embeddings"
    ELSE "get_fused_embeddings"

\* The embedding function the modality dispatch selects (the if / elif
\* chain on q_modality and on corpus_modality), "unsupported" for the
\* final else, which raises.
Encoder(modality) ==
    IF modality = "text" THEN "get_text_embeddings"
    ELSE IF modality = "image" THEN "get_image_embeddings"
    ELSE IF modality = "image,text" THEN "get_fused_embeddings"
    ELSE "unsupported"

\* The datasets a caller may pass: n items, all of one modality out of
\* mods.  Query ids are 1..n; the corpus ids are 1..n, ascending or (with
\* FALSE in ups) descending, so that a corpus position and the id at it
\* differ.
QueryDatasets(mods) ==
    {[ids |-> [i \in 1 .. n |-> i], modality |-> IF n = 0 THEN "none" ELSE m] :
        n \in 0 .. MaxQueries, m \in mods}

CorpusDatasets(mods, ups) ==
    {[ids |-> [i \in 1 .. n |-> IF up THEN i ELSE n + 1 - i],
      modality |-> IF n = 0 THEN "none" ELSE m] :
        n \in 0 .. MaxCorpus, m \in mods, up \in ups}

\* The locals of a call that has not reached them yet.
FreshLocals ==
    /\ chunk_start' = 0
    /\ result_heaps' = EmptyMap
    /\ cos_scores' = EmptyMap
    /\ encoded' = <<>>

\* Mutant: the rows of the earlier call are kept and only missing query
\* ids are added.
ResultsKept(old, query_ids) ==
    [qid \in (DOMAIN old) \cup query_ids |->
        IF qid \in DOMAIN old THEN old[qid] ELSE EmptyMap]

\* self.results = {qid: {} for qid in query_ids}: a new mapping, whatever
\* self.results held.
ResultsReset(old, query_ids) == [qid \in query_ids |-> EmptyMap]

\* search(), lines 101-108: the score function check, then the reset of
\* self.results.
SearchBegin(sfs, qds, cds, cells) ==
    /\ pc = "idle"
    /\ \E sf \in sfs :
         IF ~SupportedScoreFunction(sf)
         THEN /\ score_function' = sf
              /\ top_k' = 1
              /\ queries' = EmptyDataset
              /\ corpus' = EmptyDataset
              /\ outcome' = "ValueError"
              /\ FreshLocals
              /\ UNCHANGED <<pc, results>>
         ELSE \E k \in 1 .. MaxTopK, qs \in qds, cs \in cds :
              /\ Len(qs.ids) * Len(cs.ids) <= cells
              /\ score_function' = sf
              /\ top_k' = k
              /\ queries' = qs
              /\ corpus' = cs
              /\ results' = ResultsReset(results, Range(qs.ids))
              /\ outcome' = "none"
              /\ FreshLocals
              /\ pc' = "encode_queries"
    /\ UNCHANGED <<corpus_chunk_size, previous_results>>

\* A raise inside search(): the call ends, self.results stays as it is.
Raise(error) ==
    /\ outcome' = error
    /\ pc' = "idle"

\* search(), lines 110-155: q_modality = queries[0]["modality"], the whole
\* query collection is encoded by the function of its modality, then
\* corpus_modality = corpus[0]["modality"] and the empty heaps.
EncodeQueries ==
    /\ pc = "encode_queries"
    /\ IF Len(queries.ids) = 0
       THEN /\ Raise("IndexError")
            /\ UNCHANGED <<encoded, result_heaps>>
       ELSE IF Encoder(queries.modality) = "unsupported"
       THEN /\ Raise("ValueError")
            /\ UNCHANGED <<encoded, result_heaps>>
       ELSE /\ encoded' = Append(encoded,
                    [coll |-> "queries", fn |-> Encoder(queries.modality),
                     first |-> 1, last |-> Len(queries.ids)])
            /\ IF Len(corpus.ids) = 0
               THEN /\ Raise("IndexError")
                    /\ UNCHANGED result_heaps
               ELSE /\ result_heaps' = [qid \in Range(queries.ids) |-> {}]
                    /\ pc' = "chunk_loop"
                    /\ UNCHANGED outcome
    /\ UNCHANGED <<corpus_chunk_size, previous_results, results, score_function,
                   top_k, queries, corpus, chunk_start, cos_scores>>

\* cos_scores[torch.isnan(cos_scores)] = -1
NanToSentinel(raw) == IF raw.nan THEN NanSentinel ELSE raw.v

\* torch.topk(cos_scores, top_k, dim=1, largest=True) on one row: any set of
\* top_k local indices such that no index left out has a higher value
\* (which one on ties is not specified).  row: local index -> value.
TopKSelections(row, k) ==
    {S \in SUBSET DOMAIN row :
        /\ Cardinality(S) = k
        /\ \A i \in S, j \in (DOMAIN row) \ S : row[i] >= row[j]}

\* Python's order on the (score, corpus_id) tuples of a heap.
TupleLess(a, b) == a[1] < b[1] \/ (a[1] = b[1] /\ a[2] < b[2])

HeapMin(heap) == CHOOSE a \in heap : \A b \in heap : a = b \/ TupleLess(a, b)

\* Mutant: heapreplace instead of heappushpop, the minimum is popped before
\* the push.
HeapOfferReplace(heap, item, k) ==
    IF Cardinality(heap) < k
    THEN heap \cup {item}
    ELSE (heap \ {HeapMin(heap)}) \cup {item}

\* if len(heap) < top_k: heappush(heap, item) else: heappushpop(heap, item)
HeapOffer(heap, item, k) ==
    IF Cardinality(heap) < k
    THEN heap \cup {item}
    ELSE (heap \cup {item}) \ {HeapMin(heap \cup {item})}

\* The inner loop over one query's chunk-local top-k: every selected
\* (score, corpus_id) is offered to the query's heap.
RECURSIVE MergeIntoHeap(_, _, _)
MergeIntoHeap(heap, items, k) ==
    IF items = {}
    THEN heap
    ELSE LET item == CHOOSE x \in items : TRUE
         IN  MergeIntoHeap(HeapOffer(heap, item, k), items \ {item}, k)

\* Mutant: the chunk-local index is used as a position of the whole corpus.
ChunkCorpusIdOfWholeCorpus(ids, start, local) == ids[local]

\* chunk_ids[sub_corpus_id]: the corpus id of a chunk-local index (1-based
\* here) of the chunk that starts at 0-based position start.
ChunkCorpusId(ids, start, local) == ids[start + local]

\* One iteration of the chunk loop, lines 156-219.
ProcessChunk ==
    /\ pc = "chunk_loop"
    /\ chunk_start < Len(corpus.ids)
    /\ LET last == Min(chunk_start + corpus_chunk_size, Len(corpus.ids))
           size == last - chunk_start
           nq == Len(queries.ids)
       IN  IF Encoder(corpus.modality) = "unsupported"
           THEN /\ Raise("ValueError")
                /\ UNCHANGED <<encoded, cos_scores, result_heaps, chunk_start>>
           ELSE \E raw \in [(1 .. nq) \X (1 .. size) -> ScoreRange(score_function)] :
                /\ encoded' = Append(encoded,
                        [coll |-> "corpus", fn |-> Encoder(corpus.modality),
                         first |-> chunk_start + 1, last |-> last])
                /\ cos_scores' =
                        [c \in DOMAIN cos_scores \cup ((1 .. nq) \X (chunk_start + 1 .. last)) |->
                            IF c \in DOMAIN cos_scores THEN cos_scores[c]
                            ELSE raw[<<c[1], c[2] - chunk_start>>]]
                /\ IF top_k > size
                   THEN \* torch.topk: k out of range for the chunk's dimension
                        /\ Raise("RuntimeError")
                        /\ UNCHANGED <<result_heaps, chunk_start>>
                   ELSE \E sel \in [1 .. nq -> SUBSET (1 .. size)] :
                        /\ \A qi \in 1 .. nq :
                             sel[qi] \in TopKSelections(
                                 [j \in 1 .. size |-> NanToSentinel(raw[<<qi, j>>])], top_k)
                        /\ result_heaps' =
                             [qid \in DOMAIN result_heaps |->
                                LET qi == CHOOSE i \in 1 .. nq : queries.ids[i] = qid
                                IN  MergeIntoHeap(
                                        result_heaps[qid],
                                        {<<NanToSentinel(raw[<<qi, j>>]),
                                           ChunkCorpusId(corpus.ids, chunk_start, j)>> :
                                            j \in sel[qi]},
                                        top_k)]
                        /\ chunk_start' = chunk_start + corpus_chunk_size
                        /\ UNCHANGED <<pc, outcome>>
    /\ UNCHANGED <<corpus_chunk_size, previous_results, results, score_function,
                   top_k, queries, corpus>>

\* The id -> score mapping a heap drains into.
HeapRow(heap) ==
    [cid \in {e[2] : e \in heap} |-> (CHOOSE e \in heap : e[2] = cid)[1]]

\* Lines 221-225, after the last chunk: every heap is drained into
\* self.results, which is returned.
Materialize ==
    /\ pc = "chunk_loop"
    /\ chunk_start >= Len(corpus.ids)
    /\ results' = [qid \in DOMAIN results |-> HeapRow(result_heaps[qid])]
    /\ outcome' = "returned"
    /\ pc' = "idle"
    /\ UNCHANGED <<corpus_chunk_size, previous_results, score_function, top_k,
                   queries, corpus, chunk_start, result_heaps, cos_scores, encoded>>

\* ---------------------------------------------------------- evaluate
EvalIds == 1 .. MaxEvalId

\* id -> value mappings over the ids, with values from vals.
Rows(vals) == UNION {[D -> vals] : D \in SUBSET EvalIds}

\* query id -> (corpus id -> relevance grade).  The values the relevance
\* evaluator computes are not modelled, only which queries it scores, so
\* every judged query has the same judgments: corpus id 1 is relevant.
QrelRow == (1 :> 1)

QrelSets == {[qid \in Q |-> QrelRow] : Q \in SUBSET EvalIds}

\* The number of (qid, pid) pairs of a results mapping.
PairCount(res) ==
    Cardinality({c \in EvalIds \X EvalIds :
                    c[1] \in DOMAIN res /\ c[2] \in DOMAIN res[c[1]]})

\* query id -> (corpus id -> score), of at most MaxPairs pairs in all.
ResultSets ==
    {res \in UNION {[Q -> Rows(1 .. MaxScore)] : Q \in SUBSET EvalIds} :
        PairCount(res) <= MaxPairs}

KValueLists == {[i \in 1 .. n |-> i] : n \in 1 .. MaxK}

\* The elements of a set of ids in the order a dict of them is iterated.
RECURSIVE IdSeq(_)
IdSeq(S) ==
    IF S = {}
    THEN <<>>
    ELSE LET m == CHOOSE x \in S : \A y \in S : x <= y
         IN  <<m>> \o IdSeq(S \ {m})

\* Mutant: the removal stops after the first query of results.
RemoveIdenticalFirstQuery(res) ==
    [qid \in DOMAIN res |->
        [pid \in IF \A other \in DOMAIN res : qid <= other
                 THEN (DOMAIN res[qid]) \ {qid}
                 ELSE DOMAIN res[qid] |-> res[qid][pid]]]

\* for pid in list(rels): if qid == pid: results[qid].pop(pid)
RemoveIdentical(res) ==
    [qid \in DOMAIN res |->
        [pid \in (DOMAIN res[qid]) \ {qid} |-> res[qid][pid]]]

\* Mutant: identical ids are removed whatever ignore_identical_ids says.
FilteredResultsAlways(res, ignore) == RemoveIdentical(res)

\* Lines 304-316: results after the optional removal of identical ids.
FilteredResults(res, ignore) == IF ignore THEN RemoveIdentical(res) ELSE res

\* all_ndcgs, all_aps, all_recalls, all_precisions, by the name their keys
\* start with.
MetricNames == {"NDCG", "MAP", "Recall", "P"}

\* Mutant: the key leaves out the cutoff.
MetricKeyWithoutK(m, k) == m \o "@"

\* f"NDCG@{k}", f"MAP@{k}", f"Recall@{k}", f"P@{k}"
MetricKey(m, k) == m \o "@" \o ToString(k)

\* for k in k_values: all_ndcgs[f"NDCG@{k}"] = [] ...
MetricKeys(m, kv) == {MetricKey(m, kv[i]) : i \in DOMAIN kv}

\* evaluator.evaluate(results): pytrec_eval scores the queries of results
\* that qrels judges.
ScoredQueries(rels, res) == IdSeq((DOMAIN res) \cap (DOMAIN rels))

\* evaluate(qrels, results, k_values, ignore_identical_ids) is entered.
EvaluateCall ==
    /\ e_pc = "idle"
    /\ e_outcome = "none"
    /\ \E rels \in QrelSets, res \in ResultSets, kv \in KValueLists, ignore \in BOOLEAN :
         /\ qrels' = rels
         /\ qrels_at_call' = rels
         /\ e_results' = res
         /\ results_at_call' = res
         /\ k_values' = kv
         /\ ignore_identical_ids' = ignore
    /\ e_pc' = "filter"
    /\ UNCHANGED <<scores, all_scores, metrics, evaluator_input, abstention_input,
                   e_outcome, naucs>>

\* Lines 304-316.
EvaluateFilter ==
    /\ e_pc = "filter"
    /\ e_results' = FilteredResults(e_results, ignore_identical_ids)
    /\ e_pc' = "score"
    /\ UNCHANGED <<qrels, k_values, ignore_identical_ids, scores, all_scores,
                   metrics, qrels_at_call, results_at_call, evaluator_input,
                   abstention_input, e_outcome, naucs>>

\* Lines 318-340: the relevance evaluator is run on results, and every
\* scored query appends its value to the list of each metric@k.  A
\* per-query value is kept as the record of what it measures.
EvaluateScore ==
    /\ e_pc = "score"
    /\ evaluator_input' = e_results
    /\ scores' = ScoredQueries(qrels, e_results)
    /\ all_scores' =
         [m \in MetricNames |->
            [key \in MetricKeys(m, k_values) |->
               [i \in DOMAIN scores' |-> [of |-> key, qid |-> scores'[i]]]]]
    /\ e_pc' = "aggregate"
    /\ UNCHANGED <<qrels, e_results, k_values, ignore_identical_ids, metrics,
                   qrels_at_call, results_at_call, abstention_input, e_outcome,
                   naucs>>

\* round(sum(values) / len(scores), 5): one number, kept as the record of
\* what it averages; the division raises when no query was scored.
Mean(values, n) ==
    IF n = 0
    THEN [error |-> "ZeroDivisionError", value |-> <<>>]
    ELSE [error |-> "none", value |-> [mean_of |-> values, n |-> n]]

\* Lines 342-353: ndcg, _map, recall, precision are shallow copies of the
\* four mappings of lists, and every metric@k of a copy is replaced by its
\* mean; the mappings of lists keep their lists.
EvaluateAggregate ==
    /\ e_pc = "aggregate"
    /\ LET means == [m \in MetricNames |->
                        [key \in MetricKeys(m, k_values) |->
                            Mean(all_scores[m][key], Len(scores))]]
       IN  IF \E m \in MetricNames : \E key \in DOMAIN means[m] :
                   means[m][key].error # "none"
           THEN /\ e_outcome' = "ZeroDivisionError"
                /\ e_pc' = "done"
                /\ UNCHANGED metrics
           ELSE /\ metrics' = [m \in MetricNames |->
                                 [key \in DOMAIN means[m] |-> means[m][key].value]]
                /\ e_pc' = "abstention"
                /\ UNCHANGED e_outcome
    /\ UNCHANGED <<qrels, e_results, k_values, ignore_identical_ids, scores,
                   all_scores, qrels_at_call, results_at_call, evaluator_input,
                   abstention_input, naucs>>

\* {**all_ndcgs, **all_aps, **all_recalls, **all_precisions}: on a shared
\* key the later mapping wins.
MergedScores(lists) ==
    LET order == <<"NDCG", "MAP", "Recall", "P">>
        keys  == UNION {DOMAIN lists[m] : m \in MetricNames}
    IN  [key \in keys |->
            LET last == CHOOSE i \in DOMAIN order :
                           /\ key \in DOMAIN lists[order[i]]
                           /\ \A j \in DOMAIN order :
                                 key \in DOMAIN lists[order[j]] => j <= i
            IN  lists[order[last]][key]]

\* The keys of the mapping confidence_scores returns for one query: the
\* highest score, and its margin over the second highest.
ConfidenceFunctions == {"max", "margin"}

\* all_sim_scores = [list(results[qid].values()) for qid in list(results.keys())]
\* The queries whose confidence scores make up each array, in order.
ConfidenceQueries(res) == IdSeq(DOMAIN res)

\* f"nAUC_{metric_name}_{fct}"
NaucKey(metric_name, fct) == "nAUC_" \o metric_name \o "_" \o fct

\* evaluate_abstention(results, metric_scores): one nAUC(conf_scores, scores)
\* per metric name and confidence function, kept as the record of what it
\* is computed from.
evaluate_abstention(res, metric_scores) ==
    LET pairs == (DOMAIN metric_scores) \X ConfidenceFunctions
    IN  [key \in {NaucKey(p[1], p[2]) : p \in pairs} |->
            LET p == CHOOSE q \in pairs : NaucKey(q[1], q[2]) = key
            IN  [metric_name |-> p[1], fct |-> p[2]]]

\* Lines 355-359: evaluate_abstention(results, ...), then the return.
\* confidence_scores and nAUC come from ..utils, outside this file:
\* whether they raise on what they are given is left open.
EvaluateAbstention ==
    /\ e_pc = "abstention"
    /\ abstention_input' = e_results
    /\ \E raised \in BOOLEAN :
         IF raised
         THEN /\ e_outcome' = "Exception"
              /\ UNCHANGED naucs
         ELSE /\ e_outcome' = "returned"
              /\ naucs' = evaluate_abstention(e_results, MergedScores(all_scores))
    /\ e_pc' = "done"
    /\ UNCHANGED <<qrels, e_results, k_values, ignore_identical_ids, scores,
                   all_scores, metrics, qrels_at_call, results_at_call,
                   evaluator_input>>

NextEvaluate ==
    \/ EvaluateCall /\ UNCHANGED engineVars
    \/ EvaluateFilter /\ UNCHANGED engineVars
    \/ EvaluateScore /\ UNCHANGED engineVars
    \/ EvaluateAggregate /\ UNCHANGED engineVars
    \/ EvaluateAbstention /\ UNCHANGED engineVars

SpecEvaluate == InitNew /\ [][NextEvaluate]_vars

\* The search of an engine built without a results file: every score
\* function name and every modality tag; score matrices of at most
\* MaxCells entries.
Next ==
    \/ /\ SearchBegin(ScoreFunctionNames, QueryDatasets(Modalities),
                      CorpusDatasets(Modalities, {FALSE}), MaxCells)
       /\ UNCHANGED evalVars
    \/ EncodeQueries /\ UNCHANGED evalVars
    \/ ProcessChunk /\ UNCHANGED evalVars
    \/ Materialize /\ UNCHANGED evalVars

Spec == Init /\ [][Next]_vars

\* The engine from its construction on, with or without a results file,
\* searching text collections; score matrices of at most MaxCells entries.
NextCache ==
    \/ Construct /\ UNCHANGED evalVars
    \/ /\ SearchBegin(score_functions, QueryDatasets({"text"}),
                      CorpusDatasets({"text"}, {FALSE}), MaxCells)
       /\ UNCHANGED evalVars
    \/ EncodeQueries /\ UNCHANGED evalVars
    \/ ProcessChunk /\ UNCHANGED evalVars
    \/ Materialize /\ UNCHANGED evalVars

SpecCache == InitNew /\ [][NextCache]_vars

\* The ranking of text collections by an engine built without a results
\* file; score matrices of at most MaxRankCells entries.
NextRank ==
    \/ /\ SearchBegin(score_functions, QueryDatasets({"text"}),
                      CorpusDatasets({"text"}, BOOLEAN), MaxRankCells)
       /\ UNCHANGED evalVars
    \/ EncodeQueries /\ UNCHANGED evalVars
    \/ ProcessChunk /\ UNCHANGED evalVars
    \/ Materialize /\ UNCHANGED evalVars

SpecRank == Init /\ [][NextRank]_vars

\* ------------------------------------------------------------ claims
\* A search() call has ended, by a return or by a raise.
SearchEnded == pc = "idle" /\ outcome # "none"

NumQueries == Len(queries.ids)

NumCorpus == Len(corpus.ids)

\* The corpus positions scored so far for the query at index qi.
ScoredPositions(qi) == {c[2] : c \in {d \in DOMAIN cos_scores : d[1] = qi}}

\* The scores computed for the query at index qi are valid and pairwise
\* distinct.
DistinctScores(qi) ==
    \A i, j \in ScoredPositions(qi) :
        /\ ~cos_scores[<<qi, i>>].nan
        /\ (i # j => cos_scores[<<qi, i>>].v # cos_scores[<<qi, j>>].v)

\* The Result Set row of the top-k taken in one shot over the whole
\* corpus, for the query at index qi (all of the corpus has been scored).
OneShotTopK(qi) ==
    LET row == [j \in 1 .. NumCorpus |-> NanToSentinel(cos_scores[<<qi, j>>])]
        S == CHOOSE T \in SUBSET (1 .. NumCorpus) :
                /\ Cardinality(T) = top_k
                /\ \A i \in T, j \in (1 .. NumCorpus) \ T : row[i] >= row[j]
    IN  [cid \in {corpus.ids[j] : j \in S} |->
            row[CHOOSE j \in S : corpus.ids[j] = cid]]

\* C1: for a corpus of N >= top_k items whose scores are pairwise distinct
\* per query, and any chunk size, search() completes and returns for every
\* query exactly the (corpus id, score) pairs of the global top-top_k taken
\* in one shot.  (The code raises in torch.topk as soon as a chunk holds
\* fewer than top_k items.)
C1_ChunkedTopKEqualsOneShot ==
    (/\ SearchEnded
     /\ NumQueries >= 1
     /\ NumCorpus >= top_k
     /\ \A qi \in 1 .. NumQueries : DistinctScores(qi))
    => /\ outcome = "returned"
       /\ \A qi \in 1 .. NumQueries : results[queries.ids[qi]] = OneShotTopK(qi)

\* C2: after search() every query's result mapping has at most top_k
\* entries, exactly min(N, top_k) when the scores are distinct, and a
\* corpus of fewer than top_k items yields N entries, not an error.  (The
\* code raises in torch.topk when N < top_k.)
C2_ResultSizeBound ==
    (SearchEnded /\ NumQueries >= 1 /\ NumCorpus >= 1)
    => /\ NumCorpus < top_k => outcome = "returned"
       /\ outcome = "returned" =>
            \A qi \in 1 .. NumQueries :
               LET n == Cardinality(DOMAIN results[queries.ids[qi]])
               IN  /\ n <= top_k
                   /\ DistinctScores(qi) => n = Min(NumCorpus, top_k)

\* C3: a (query, corpus item) pair whose score is NaN is not in the
\* query's result mapping whenever at least top_k corpus items have a
\* valid score for that query, whatever those valid scores are.  (The code
\* ranks a NaN as -1: above every valid score below -1, level with a
\* valid -1.)  Stated for the queries none of whose valid scores is -1, so
\* that a violation does not rest on how a tie is broken.
C3_NanNeverSelected ==
    (SearchEnded /\ outcome = "returned")
    => \A qi \in 1 .. NumQueries, j \in 1 .. NumCorpus :
          LET valid == {i \in 1 .. NumCorpus : ~cos_scores[<<qi, i>>].nan}
          IN  (/\ cos_scores[<<qi, j>>].nan
               /\ Cardinality(valid) >= top_k
               /\ \A i \in valid : cos_scores[<<qi, i>>].v # NanSentinel)
              => corpus.ids[j] \notin DOMAIN results[queries.ids[qi]]

\* C4: search() with a score function other than cos_sim and dot raises
\* before any embedding function is called and leaves self.results as it
\* was before the call.
C4_UnsupportedScoreFunctionRaisesFirst ==
    [][(pc = "idle" /\ score_function' \notin score_functions)
        => /\ outcome' = "ValueError"
           /\ pc' = "idle"
           /\ encoded' = <<>>
           /\ results' = results]_vars

\* A call with an unsupported score function has raised on an engine whose
\* results an earlier search had filled.
C4_Witness ==
    /\ SearchEnded
    /\ score_function = "euclid"
    /\ outcome = "ValueError"
    /\ \E qid \in DOMAIN results : results[qid] # EmptyMap

\* The embedding calls made on a collection.
EncodedOf(coll) == {i \in DOMAIN encoded : encoded[i].coll = coll}

\* C5: search() on queries or on a corpus whose modality tag (of the first
\* element) is not supported raises, never calls an embedding function on
\* the items of that collection, and returns no Result Set.
C5_UnsupportedModalityRaises ==
    /\ (NumQueries >= 1 /\ queries.modality \notin SupportedModalities)
       => /\ encoded = <<>>
          /\ pc \in {"encode_queries", "idle"}
          /\ pc = "idle" => outcome = "ValueError"
    /\ (NumCorpus >= 1 /\ corpus.modality \notin SupportedModalities)
       => /\ EncodedOf("corpus") = {}
          /\ chunk_start = 0
          /\ pc \in {"encode_queries", "chunk_loop", "idle"}
          /\ pc = "idle" => outcome \in {"ValueError", "IndexError"}
          /\ (pc = "idle" /\ NumQueries >= 1) => outcome = "ValueError"

\* The queries were encoded, and the first corpus chunk raised for the
\* unsupported corpus modality.
C5_Witness ==
    /\ SearchEnded
    /\ corpus.modality = "audio"
    /\ queries.modality \in SupportedModalities
    /\ EncodedOf("queries") # {}
    /\ outcome = "ValueError"

\* evaluator.evaluate(results) has been called.
EvaluatorCalled == e_pc \in {"aggregate", "abstention", "done"}

\* evaluate_abstention(results, ...) has been called.
AbstentionCalled == e_pc = "done" /\ e_outcome \in {"returned", "Exception"}

\* res holds no pair with qid = pid, and every other pair of orig with its
\* score.
SelfMatchesRemoved(res, orig) ==
    /\ DOMAIN res = DOMAIN orig
    /\ \A qid \in DOMAIN orig :
         /\ qid \notin DOMAIN res[qid]
         /\ \A pid \in DOMAIN orig[qid] :
              pid # qid => (pid \in DOMAIN res[qid] /\ res[qid][pid] = orig[qid][pid])
         /\ DOMAIN res[qid] \subseteq DOMAIN orig[qid]

\* C6: with ignore_identical_ids, the results given to the relevance
\* evaluator and to the abstention diagnostic hold no pair with qid = pid,
\* even a top-scored one, and hold every pair with qid # pid with its score.
C6_SelfMatchesFiltered ==
    ignore_identical_ids
    => /\ EvaluatorCalled => SelfMatchesRemoved(evaluator_input, results_at_call)
       /\ AbstentionCalled => SelfMatchesRemoved(abstention_input, results_at_call)

\* evaluate() has returned with ignore_identical_ids on results in which a
\* query's self-match had the highest score of its row.
C6_Witness ==
    /\ ignore_identical_ids
    /\ AbstentionCalled
    /\ e_outcome = "returned"
    /\ \E qid \in DOMAIN results_at_call :
         /\ qid \in DOMAIN results_at_call[qid]
         /\ \E pid \in DOMAIN results_at_call[qid] :
              pid # qid /\ results_at_call[qid][pid] < results_at_call[qid][qid]

\* C7: when qrels and results share no query id, evaluate() raises the
\* explicit NoScoredQueries condition.  (The code divides by len(scores)
\* without a guard and raises ZeroDivisionError.)
C7_NoScoredQueriesRaised ==
    (e_pc = "done" /\ scores = <<>>) => e_outcome = "NoScoredQueries"

\* C8: with a results file supplied to the engine, search() skips the
\* encoding of queries and corpus and returns the cached Result Set.  (The
\* code never reads self.previous_results in search().)
C8_CachedResultsReturned ==
    (SearchEnded /\ outcome = "returned" /\ previous_results # NoFile)
    => /\ encoded = <<>>
       /\ IsResultSet(previous_results)
       /\ results = AsResultSet(previous_results)

\* C9: a results file whose content is not a mapping query id -> (mapping
\* corpus id -> score) is never accepted as previous results: not a
\* non-mapping top level, not an empty mapping, not a mapping in which any
\* value is not a mapping.  (The code checks the first value only.)
C9_MalformedCacheRejected ==
    previous_results # NoFile => IsResultSet(previous_results)

\* res differs from orig at most by pairs with qid = pid that it lacks.
OnlySelfMatchesRemoved(res, orig) ==
    /\ DOMAIN res = DOMAIN orig
    /\ \A qid \in DOMAIN orig :
         /\ DOMAIN res[qid] \subseteq DOMAIN orig[qid]
         /\ (DOMAIN orig[qid]) \ (DOMAIN res[qid]) \subseteq {qid}
         /\ \A pid \in DOMAIN res[qid] : res[qid][pid] = orig[qid][pid]

\* C10: evaluate() never changes qrels; without ignore_identical_ids it
\* leaves the caller's results as they were, and with it the only change is
\* the removal of pairs with qid = pid.
C10_EvaluateFrame ==
    /\ qrels = qrels_at_call
    /\ ~ignore_identical_ids => e_results = results_at_call
    /\ ignore_identical_ids => OnlySelfMatchesRemoved(e_results, results_at_call)

\* evaluate() has returned without ignore_identical_ids on results that
\* hold a self-match, which is still there.
C10_Witness ==
    /\ ~ignore_identical_ids
    /\ e_pc = "done"
    /\ e_outcome = "returned"
    /\ \E qid \in DOMAIN e_results : qid \in DOMAIN e_results[qid]


\* evaluate() has returned its five mappings.
EvaluateReturned == e_pc = "done" /\ e_outcome = "returned"

\* C11: for non-empty k_values and at least one scored query, each of the
\* NDCG, MAP, Recall and Precision mappings evaluate() returns has exactly
\* one key per k of k_values, of the form "<METRIC>@<k>", holding one
\* aggregated number over the scored queries and not the per-query list;
\* the nAUC mapping has exactly one key "nAUC_<metric@k>_<confidence
\* function>" for every pair of a metric@k name and a confidence function.
C11_ReturnedMappingKeys ==
    (EvaluateReturned /\ Len(k_values) > 0 /\ Len(scores) > 0) =>
        LET ks == Range(k_values)
        IN  /\ \A m \in MetricNames :
                 /\ DOMAIN metrics[m] = {m \o "@" \o ToString(k) : k \in ks}
                 /\ Cardinality(DOMAIN metrics[m]) = Cardinality(ks)
                 /\ \A key \in DOMAIN metrics[m] :
                       /\ metrics[m][key].n = Len(scores)
                       /\ Len(metrics[m][key].mean_of) = Len(scores)
            /\ DOMAIN naucs =
                 {"nAUC_" \o m \o "@" \o ToString(k) \o "_" \o fct :
                     m \in MetricNames, k \in ks, fct \in ConfidenceFunctions}
            /\ Cardinality(DOMAIN naucs) =
                 Cardinality(MetricNames) * Cardinality(ks)
                    * Cardinality(ConfidenceFunctions)

\* evaluate() has returned for two cutoffs and two scored queries.
C11_Witness ==
    /\ EvaluateReturned
    /\ Len(k_values) = 2
    /\ Len(scores) = 2


\* C15: for every metric@k, the per-query metric score list handed to the
\* abstention diagnostic and the per-query confidence-score array have the
\* same length and refer to the same queries position by position, for
\* every qrels and results, results with query ids absent from qrels
\* included.  Only results that give every query a retrieved score are
\* looked at, so that every query has a confidence score.
C15_AbstentionArraysAligned ==
    (/\ AbstentionCalled
     /\ \A qid \in DOMAIN abstention_input : abstention_input[qid] # EmptyMap) =>
        LET metric_scores == MergedScores(all_scores)
            conf_queries  == ConfidenceQueries(abstention_input)
        IN  \A key \in DOMAIN metric_scores :
               /\ Len(metric_scores[key]) = Len(conf_queries)
               /\ \A j \in DOMAIN conf_queries :
                     metric_scores[key][j].qid = conf_queries[j]


\* The corpus position that holds corpus id cid.
PositionOf(cid) == CHOOSE p \in 1 .. NumCorpus : corpus.ids[p] = cid

\* C12: in one search() call the whole query collection is encoded exactly
\* once and before any corpus chunk; the corpus chunks are encoded one after
\* another in increasing order, are contiguous, hold at most
\* corpus_chunk_size items each and together cover every corpus item exactly
\* once when the call returns; every item of an encoded chunk is scored
\* against every query, and a heap entry taken at chunk-local index i
\* carries the corpus id at position chunk_start + i, i.e. the score of the
\* item it names.
C12_ChunkOrderAndCoverage ==
    encoded # <<>> =>
        LET n == Len(encoded)
        IN  /\ encoded[1].coll = "queries"
            /\ encoded[1].first = 1 /\ encoded[1].last = NumQueries
            /\ \A i \in 2 .. n :
                  /\ encoded[i].coll = "corpus"
                  /\ encoded[i].first = IF i = 2 THEN 1 ELSE encoded[i - 1].last + 1
                  /\ encoded[i].first <= encoded[i].last
                  /\ encoded[i].last - encoded[i].first + 1 <= corpus_chunk_size
                  /\ encoded[i].last <= NumCorpus
            /\ \A qi \in 1 .. NumQueries :
                  ScoredPositions(qi) = 1 .. (IF n = 1 THEN 0 ELSE encoded[n].last)
            /\ outcome = "returned" => (n >= 2 /\ encoded[n].last = NumCorpus)
            /\ \A qi \in 1 .. NumQueries :
                  queries.ids[qi] \in DOMAIN result_heaps =>
                     \A e \in result_heaps[queries.ids[qi]] :
                        /\ e[2] \in Range(corpus.ids)
                        /\ PositionOf(e[2]) \in ScoredPositions(qi)
                        /\ e[1] = NanToSentinel(cos_scores[<<qi, PositionOf(e[2])>>])

\* A search over three chunks of a corpus whose ids differ from their
\* positions has returned.
C12_Witness ==
    /\ SearchEnded /\ outcome = "returned"
    /\ Len(encoded) = 4
    /\ corpus.ids[1] # 1
    /\ \E qid \in DOMAIN results : results[qid] # EmptyMap

\* The (score, corpus id) entries of the k highest-scoring positions out of
\* seen, for the query at index qi whose scores are distinct.
HighestSeen(qi, seen, k, sc) ==
    {<<sc[<<qi, p>>].v, corpus.ids[p]>> : p \in
        {p \in seen : Cardinality({o \in seen : sc[<<qi, o>>].v > sc[<<qi, p>>].v}) < k}}

C14_NoPartialResults ==
    /\ pc \in {"encode_queries", "chunk_loop"} =>
          /\ DOMAIN results = Range(queries.ids)
          /\ \A qid \in DOMAIN results : results[qid] = EmptyMap
    /\ (SearchEnded /\ outcome # "returned" /\ encoded # <<>>) =>
          /\ DOMAIN results = Range(queries.ids)
          /\ \A qid \in DOMAIN results : results[qid] = EmptyMap
    /\ (SearchEnded /\ outcome = "returned") =>
          /\ DOMAIN results = Range(queries.ids)
          /\ \A qid \in DOMAIN results :
                /\ results[qid] = HeapRow(result_heaps[qid])
                /\ DOMAIN results[qid] \subseteq Range(corpus.ids)

\* A search has failed in its second chunk, after the first chunk had been
\* merged into the heaps.
C14_Witness ==
    /\ SearchEnded /\ outcome = "RuntimeError"
    /\ Len(encoded) = 3
    /\ \E qid \in DOMAIN result_heaps : result_heaps[qid] # {}
    /\ \A qid \in DOMAIN results : results[qid] = EmptyMap

====
